---- MODULE Spec2Model ----
(***************************************************************************)
(* LinkReach: the upload -> filter -> download pipeline.                   *)
(*                                                                         *)
(* Two applications are modelled side by side, as the repository holds     *)
(* both: the router of backend/api/routes.py (app "routes"), which keeps   *)
(* uploads as pickle files named by a uuid, and the application of main.py *)
(* (app "main", the one run.py serves), which keeps uploads in the         *)
(* process-wide dictionary _uploaded_data.  Both publish filtered tables   *)
(* through CSVService into the same artifact directory.                    *)
(***************************************************************************)
EXTENDS Integers, Sequences, FiniteSets, TLC

(***************************************************************************)
(* Bounds of the model.                                                    *)
(***************************************************************************)
MaxUploads == 2
MaxRequests == 2
MaxClock == 1
MaxDownloads == 1

Apps == {"routes", "main"}

\* FilterRequest.file_id is Optional[str] = None; 0 stands for None / "".
NoFileId == 0

\* The values uuid.uuid4() can return, and the n of main.py's "file_<n>".
Uuids == 1..MaxUploads

FileIds == {NoFileId} \cup Uuids

(***************************************************************************)
(* Tables (pandas DataFrames): ordered columns, ordered rows, each row a   *)
(* tuple of cell values aligned with the columns.                          *)
(***************************************************************************)
TableA == [cols |-> <<"Name", "Position">>,
           rows |-> << <<"Ann", "HR">>, <<"Bob", "SDE">> >>]

TableB == [cols |-> <<"Name", "Company">>,
           rows |-> << <<"Cy", "HR">> >>]

\* TableB's bytes read as cp1252, where a byte of the name decodes otherwise.
TableBcp1252 == [cols |-> <<"Name", "Company">>,
                 rows |-> << <<"Cy'", "HR">> >>]

TableHeaderOnly == [cols |-> <<"Name", "Position">>, rows |-> << >>]

\* pd.DataFrame(): what validate_csv returns beside is_valid = False.
EmptyDataFrame == [cols |-> << >>, rows |-> << >>]

\* What pd.read_csv does with the bytes under one encoding.
Parsed(df) == [ok |-> TRUE, df |-> df]

ParseError == [ok |-> FALSE, df |-> EmptyDataFrame]

Encodings == <<"utf-8", "latin-1", "cp1252">>

\* An uploaded file: its name's extension and what pd.read_csv makes of its
\* bytes under each encoding of Encodings (Parsed(table), or ParseError).
FileA == [csv_name |-> TRUE, read_csv |-> <<Parsed(TableA), Parsed(TableA), Parsed(TableA)>>]

FileB ==
    [csv_name |-> TRUE,
     read_csv |-> <<ParseError, Parsed(TableB), Parsed(TableBcp1252)>>]

FileHeaderOnly ==
    [csv_name |-> TRUE,
     read_csv |-> <<Parsed(TableHeaderOnly), Parsed(TableHeaderOnly),
                  Parsed(TableHeaderOnly)>>]

FileGarbage == [csv_name |-> TRUE, read_csv |-> <<ParseError, ParseError, ParseError>>]

FileNotCsv == [csv_name |-> FALSE, read_csv |-> <<Parsed(TableA), Parsed(TableA), Parsed(TableA)>>]

UploadFiles == {FileA, FileB, FileHeaderOnly, FileGarbage, FileNotCsv}

(***************************************************************************)
(* Sequence helpers.                                                       *)
(***************************************************************************)
Range(s) == {s[i] : i \in DOMAIN s}

IndexOf(s, x) == CHOOSE i \in DOMAIN s : s[i] = x

RemoveAt(s, i) == [j \in 1..(Len(s) - 1) |-> IF j < i THEN s[j] ELSE s[j + 1]]

SelectIdx(s, keep) ==
    LET F[i \in 0..Len(s)] ==
            IF i = 0 THEN << >>
            ELSE IF i \in keep THEN Append(F[i - 1], s[i]) ELSE F[i - 1]
    IN F[Len(s)]

(***************************************************************************)
(* backend/services/csv_service.py                                         *)
(***************************************************************************)
\* Variant of validate_csv that keeps the last parse that succeeds.
validate_csv_last(file) ==
    LET ok == {i \in DOMAIN Encodings : file.read_csv[i].ok}
    IN IF ok = {}
       THEN [is_valid |-> FALSE, error_message |-> "Unable to read CSV file.",
             df |-> EmptyDataFrame]
       ELSE [is_valid |-> TRUE, error_message |-> "",
             df |-> file.read_csv[CHOOSE i \in ok : \A j \in ok : i >= j].df]

\* validate_csv: the encodings are tried in order, the first parse that
\* succeeds is returned; when none does, (False, message, pd.DataFrame()).
validate_csv(file) ==
    LET ok == {i \in DOMAIN Encodings : file.read_csv[i].ok}
    IN IF ok = {}
       THEN [is_valid |-> FALSE, error_message |-> "Unable to read CSV file.",
             df |-> EmptyDataFrame]
       ELSE [is_valid |-> TRUE, error_message |-> "",
             df |-> file.read_csv[CHOOSE i \in ok : \A j \in ok : i <= j].df]

\* df.empty: some axis has length 0.
IsEmpty(df) == Len(df.cols) = 0 \/ Len(df.rows) = 0

PreviewRows == 5

\* get_preview_data: df.head(max_rows).to_dict('records').
get_preview_data(df) ==
    LET n == IF Len(df.rows) < PreviewRows THEN Len(df.rows) ELSE PreviewRows
    IN [i \in 1..n |-> [c \in Range(df.cols) |-> df.rows[i][IndexOf(df.cols, c)]]]

\* The clock runs in ticks; strftime('%Y%m%d_%H%M%S') keeps whole seconds.
TicksPerSecond == 2

strftime(t) == t \div TicksPerSecond

\* save_filtered_results with filename None: the name is built from the clock.
ResultFilename(t) == <<"filtered_results_", strftime(t), ".csv">>

\* df.to_csv(file_path, index=False): a header line, then one line per row.
to_csv(df) == <<df.cols>> \o df.rows

\* pd.read_csv of what to_csv wrote.
parse_csv(lines) ==
    IF lines = << >> THEN EmptyDataFrame
    ELSE [cols |-> Head(lines), rows |-> Tail(lines)]

\* cleanup_temp_files: the artifacts with
\* file_age.total_seconds() > max_age_hours * 3600, the age being fractional.
SecondsPerHour == 3600

Expired(dir, t, max_age_hours) ==
    {n \in DOMAIN dir :
        t - dir[n].mtime > max_age_hours * SecondsPerHour * TicksPerSecond}

(***************************************************************************)
(* Upload storage of routes.py: pickle files in the temporary directory.   *)
(***************************************************************************)
pickle_dump(df) == <<"pickle", df.cols, df.rows>>

pickle_load(bytes) == [cols |-> bytes[2], rows |-> bytes[3]]

\* Variant of upload_path that leaves the file_id out of the name.
upload_path_fixed(file_id) == <<"linkedin_upload_", NoFileId, ".pkl">>

\* tempdir/linkedin_upload_<file_id>.pkl
upload_path(file_id) == <<"linkedin_upload_", file_id, ".pkl">>

(***************************************************************************)
(* backend/services/ai_service.py                                          *)
(*                                                                         *)
(* Generated code is a token sequence.  What the language model returns is *)
(* outside the program: generate_filter_code yields any of GeneratedCodes, *)
(* or raises.                                                              *)
(***************************************************************************)
RequiredPrefix == <<"df", "=", "df", "[">>

CodeFilterPosition == <<"df", "=", "df", "[", "Position", "==", "HR", "]">>

\* df = df[df.pop('Position') == 'HR']: drops the column from the bound
\* table in place, then keeps the matching rows.
CodePopPosition == <<"df", "=", "df", "[", "pop", "Position", "==", "HR", "]">>

CodeNoPrefix == <<"result", "=", "df", "[", "Position", "==", "HR", "]">>

CodeSyntaxError == <<"df", "=", "df", "[", "Position", "==", "HR">>

GeneratedCodes ==
    {CodeFilterPosition, CodePopPosition, CodeNoPrefix, CodeSyntaxError}

\* code.startswith(prefix)
startswith(code, prefix) ==
    /\ Len(code) >= Len(prefix)
    /\ SubSeq(code, 1, Len(prefix)) = prefix

\* compile(code, '<string>', 'exec'): the brackets must nest and close.
Depth(code, n) ==
    Cardinality({i \in 1..n : code[i] = "["}) - Cardinality({i \in 1..n : code[i] = "]"})

compiles(code) ==
    /\ \A n \in 1..Len(code) : Depth(code, n) >= 0
    /\ Depth(code, Len(code)) = 0

\* Variant of validate_filter_code without the compile() check.
validate_prefix_only(code) == startswith(code, RequiredPrefix)

validate_filter_code(code) ==
    IF ~startswith(code, RequiredPrefix) THEN FALSE ELSE compiles(code)

(***************************************************************************)
(* exec(filter_code, {}, local_vars) on the table bound to df.             *)
(* The result is: raised (a run-time error), result (what df is bound to   *)
(* afterwards) and object (the state afterwards of the table object that   *)
(* was bound to df before the run).                                        *)
(***************************************************************************)
MaskExpr(code) == SubSeq(code, Len(RequiredPrefix) + 1, Len(code) - 1)

exec(code, df) ==
    LET e == MaskExpr(code)
        pops == Len(e) > 0 /\ e[1] = "pop"
        col == IF pops THEN e[2] ELSE e[1]
        val == IF pops THEN e[4] ELSE e[3]
    IN IF ~compiles(code)
       THEN [raised |-> TRUE, result |-> df, object |-> df]   \* SyntaxError
       ELSE IF ~startswith(code, RequiredPrefix)
       THEN [raised |-> FALSE, result |-> df, object |-> df]  \* binds another name
       ELSE IF col \notin Range(df.cols)
       THEN [raised |-> TRUE, result |-> df, object |-> df]   \* KeyError
       ELSE LET c == IndexOf(df.cols, col)
                keep == {i \in DOMAIN df.rows : df.rows[i][c] = val}
                popped == [cols |-> RemoveAt(df.cols, c),
                           rows |-> [i \in DOMAIN df.rows |-> RemoveAt(df.rows[i], c)]]
                obj == IF pops THEN popped ELSE df
            IN [raised |-> FALSE,
                result |-> [cols |-> obj.cols, rows |-> SelectIdx(obj.rows, keep)],
                object |-> obj]

\* Variant of local_vars without the copy: local_vars = {'df': df}.
local_vars_no_copy(df) == [df |-> df, aliased |-> TRUE]

\* local_vars = {'df': df.copy()}: the code runs on a new object with the
\* content of df; aliased says whether it is the caller's object itself.
local_vars(df) == [df |-> df, aliased |-> FALSE]

(***************************************************************************)
(* State.                                                                  *)
(***************************************************************************)
VARIABLES
    served,          \* the application the process serves
    upload_dir,      \* routes.py: path of a pickle file -> bytes and mtime
    uploaded_data,   \* main.py: _uploaded_data, in insertion order
    temp_dir,        \* artifact directory: filename -> [content, mtime]
    now,             \* the clock, in ticks
    req,             \* the filter requests, by request number
    uploads,         \* responses of the upload requests so far, in order
    published,       \* the writes of save_filtered_results so far, in order
    downloads        \* responses of the download requests so far, in order

vars == <<served, upload_dir, uploaded_data, temp_dir, now, req, uploads,
          published, downloads>>

Requests == 1..MaxRequests

IdleRequest ==
    [pc |-> "idle", file_id |-> NoFileId, df |-> EmptyDataFrame,
     src |-> 0, code |-> << >>, valid |-> FALSE, filtered |-> EmptyDataFrame,
     download_url |-> << >>, status |-> 0, trace |-> << >>]

Init ==
    /\ served \in Apps
    /\ upload_dir = << >>
    /\ uploaded_data = << >>
    /\ temp_dir = << >>
    /\ now = 0
    /\ req = [r \in Requests |-> IdleRequest]
    /\ uploads = << >>
    /\ published = << >>
    /\ downloads = << >>

(***************************************************************************)
(* Exceptions and the handlers' except clauses.                            *)
(***************************************************************************)
HTTPException(status_code, detail) ==
    [type |-> "HTTPException", status_code |-> status_code, detail |-> detail]

Exception == [type |-> "Exception", status_code |-> 0, detail |-> ""]

NoException == [type |-> "none", status_code |-> 0, detail |-> ""]

\* Variant of ErrorStatus without the "except HTTPException: raise" clause.
ErrorStatus_all_500(exc) == 500

\* except HTTPException: raise / except Exception: raise HTTPException(500)
ErrorStatus(exc) == IF exc.type = "HTTPException" THEN exc.status_code ELSE 500

(***************************************************************************)
(* POST /upload                                                            *)
(***************************************************************************)
\* uuid.uuid4(): a value no earlier call returned.
IssuedIds == {uploads[i].file_id : i \in DOMAIN uploads} \ {NoFileId}

uuid4 == Uuids \ IssuedIds

\* Variant of routes_upload_check without the df.empty check.
routes_upload_check_no_empty(file) ==
    LET v == validate_csv(file)
    IN IF ~file.csv_name THEN HTTPException(400, "File must be a CSV")
       ELSE IF ~v.is_valid THEN HTTPException(400, v.error_message)
       ELSE NoException

\* routes.py upload_csv up to the storing: the exception raised, if any.
routes_upload_check(file) ==
    LET v == validate_csv(file)
    IN IF ~file.csv_name THEN HTTPException(400, "File must be a CSV")
       ELSE IF ~v.is_valid THEN HTTPException(400, v.error_message)
       ELSE IF IsEmpty(v.df)
       THEN HTTPException(400, "Uploaded CSV contains only headers and no data rows.")
       ELSE NoException

\* main.py upload_csv up to the storing.
main_upload_check(file) ==
    LET v == validate_csv(file)
    IN IF ~file.csv_name THEN HTTPException(400, "File must be a CSV")
       ELSE IF ~v.is_valid THEN HTTPException(400, v.error_message)
       ELSE NoException

\* FileUploadResponse, or the error response made of exc.
UploadResponse(file_id, df) ==
    [status |-> 200, detail |-> "", file_id |-> file_id, total_rows |-> Len(df.rows),
     columns |-> df.cols, preview_data |-> get_preview_data(df)]

UploadError(exc) ==
    [status |-> ErrorStatus(exc), detail |-> exc.detail, file_id |-> NoFileId,
     total_rows |-> 0, columns |-> << >>, preview_data |-> << >>]

routes_upload_csv(file) ==
    /\ served = "routes"
    /\ Len(uploads) < MaxUploads
    /\ LET exc == routes_upload_check(file)
           df == validate_csv(file).df
       IN IF exc.type # "none"
          THEN /\ uploads' = Append(uploads, UploadError(exc))
               /\ UNCHANGED upload_dir
          ELSE \E file_id \in uuid4 :
                 /\ upload_dir' =
                        [p \in DOMAIN upload_dir \cup {upload_path(file_id)} |->
                            IF p = upload_path(file_id)
                            THEN [content |-> pickle_dump(df), mtime |-> now]
                            ELSE upload_dir[p]]
                 /\ uploads' = Append(uploads,
                        UploadResponse(file_id, df))
    /\ UNCHANGED <<served, uploaded_data, temp_dir, now, req, published, downloads>>

main_upload_csv(file) ==
    /\ served = "main"
    /\ Len(uploads) < MaxUploads
    /\ LET exc == main_upload_check(file)
           df == validate_csv(file).df
           file_id == Len(uploaded_data) + 1
       IN IF exc.type # "none"
          THEN /\ uploads' = Append(uploads, UploadError(exc))
               /\ UNCHANGED uploaded_data
          ELSE /\ uploaded_data' = Append(uploaded_data, [key |-> file_id, df |-> df])
               \* FileUploadResponse is built without file_id: it stays None
               /\ uploads' = Append(uploads,
                        UploadResponse(NoFileId, df))
    /\ UNCHANGED <<served, upload_dir, temp_dir, now, req, published, downloads>>

(***************************************************************************)
(* POST /filter, one action per stage of the handler.                      *)
(***************************************************************************)
\* The request ends with the error response the except clauses make of exc.
Failed(r, stage, exc) ==
    [req[r] EXCEPT !.pc = "failed", !.status = ErrorStatus(exc),
                   !.trace = Append(@, stage)]

\* The request as the client sends it: FilterRequest(prompt, file_id).
ReceiveFilter(r, file_id) ==
    /\ req[r].pc = "idle"
    /\ \A q \in Requests : q < r => req[q].pc # "idle"
    /\ req' = [req EXCEPT ![r] = [@ EXCEPT !.pc = "received", !.file_id = file_id]]
    /\ UNCHANGED <<served, upload_dir, uploaded_data, temp_dir, now, uploads,
                   published, downloads>>

\* Variant of routes_load without the os.path.exists check: a missing file
\* loads as an empty table.
routes_load_unchecked(r) ==
    LET temp_path == upload_path(req[r].file_id)
    IN [req[r] EXCEPT !.pc = "loaded",
                      !.df = IF temp_path \in DOMAIN upload_dir
                             THEN pickle_load(upload_dir[temp_path].content)
                             ELSE EmptyDataFrame,
                      !.trace = Append(@, "load")]

\* routes.py: the table is read back from the pickle file named by file_id.
routes_load(r) ==
    LET temp_path == upload_path(req[r].file_id)
    IN IF req[r].file_id = NoFileId
       THEN Failed(r, "load", HTTPException(400, "No file_id provided."))
       ELSE IF temp_path \notin DOMAIN upload_dir
       THEN Failed(r, "load", HTTPException(400, "Uploaded file not found."))
       ELSE [req[r] EXCEPT !.pc = "loaded", !.df = pickle_load(upload_dir[temp_path].content),
                           !.trace = Append(@, "load")]

\* main.py: list(_uploaded_data.values())[0], whatever request.file_id is.
main_load(r) ==
    IF uploaded_data = << >>
    THEN Failed(r, "load", HTTPException(400, "No CSV file uploaded."))
    ELSE [req[r] EXCEPT !.pc = "loaded", !.df = uploaded_data[1].df, !.src = 1,
                        !.trace = Append(@, "load")]

LoadTable(r) ==
    /\ req[r].pc = "received"
    /\ req' = [req EXCEPT ![r] = IF served = "routes" THEN routes_load(r)
                                 ELSE main_load(r)]
    /\ UNCHANGED <<served, upload_dir, uploaded_data, temp_dir, now, uploads,
                   published, downloads>>

\* ai_service.generate_filter_code: the model's answer, or the call raises.
GenerateCode(r) ==
    /\ req[r].pc = "loaded"
    /\ \/ \E code \in GeneratedCodes :
            req' = [req EXCEPT ![r] = [@ EXCEPT !.pc = "generated", !.code = code,
                                                !.trace = Append(@, "generate")]]
       \/ req' = [req EXCEPT ![r] = Failed(r, "generate", Exception)]
    /\ UNCHANGED <<served, upload_dir, uploaded_data, temp_dir, now, uploads,
                   published, downloads>>

\* Variant of validate_step that asks for new code when validation fails.
validate_step_retry(r) ==
    IF ~validate_filter_code(req[r].code)
    THEN [req[r] EXCEPT !.pc = "loaded", !.trace = Append(@, "validate")]
    ELSE [req[r] EXCEPT !.pc = "validated", !.valid = TRUE,
                        !.trace = Append(@, "validate")]

\* if not ai_service.validate_filter_code(filter_code): raise HTTPException(500)
validate_step(r) ==
    IF ~validate_filter_code(req[r].code)
    THEN Failed(r, "validate", HTTPException(500, "Generated filter code is invalid"))
    ELSE [req[r] EXCEPT !.pc = "validated", !.valid = TRUE,
                        !.trace = Append(@, "validate")]

ValidateCode(r) ==
    /\ req[r].pc = "generated"
    /\ req' = [req EXCEPT ![r] = validate_step(r)]
    /\ UNCHANGED <<served, upload_dir, uploaded_data, temp_dir, now, uploads,
                   published, downloads>>

\* The table object the handler's df names: in main.py the stored one.
HandlerDf(r) ==
    IF served = "main" THEN uploaded_data[req[r].src].df ELSE req[r].df

\* exec(filter_code, {}, local_vars); filtered_df = local_vars['df']
ExecuteCode(r) ==
    /\ req[r].pc = "validated"
    /\ LET bound == local_vars(HandlerDf(r))
           x == exec(req[r].code, bound.df)
       IN /\ req' = [req EXCEPT ![r] =
                        IF x.raised THEN Failed(r, "execute", Exception)
                        ELSE [@ EXCEPT !.pc = "executed", !.filtered = x.result,
                                       !.df = IF bound.aliased THEN x.object ELSE @,
                                       !.trace = Append(@, "execute")]]
          /\ uploaded_data' =
                IF bound.aliased /\ served = "main"
                THEN [uploaded_data EXCEPT ![req[r].src].df = x.object]
                ELSE uploaded_data
    /\ UNCHANGED <<served, upload_dir, temp_dir, now, uploads, published, downloads>>

\* open(file_path, 'w') and the writing of lines: the file holds lines
\* afterwards, whatever it held before.
WriteFile(dir, filename, lines, t) ==
    [n \in DOMAIN dir \cup {filename} |->
        IF n = filename THEN [content |-> lines, mtime |-> t] ELSE dir[n]]

\* What df.to_csv can leave in the file when the write raises after the file
\* was opened: the lines written so far.
PartialWrites(lines) == {SubSeq(lines, 1, k) : k \in 0..(Len(lines) - 1)}

\* csv_service.save_filtered_results(filtered_df): the file is written under
\* the name made from the clock; or to_csv raises before the file is opened;
\* or it raises while writing.  The except clause logs and re-raises.
SaveResults(r) ==
    /\ req[r].pc = "executed"
    /\ LET filename == ResultFilename(now)
           lines == to_csv(req[r].filtered)
       IN \/ /\ temp_dir' = WriteFile(temp_dir, filename, lines, now)
             /\ published' = Append(published,
                    [req |-> r, filename |-> filename, table |-> req[r].filtered,
                     complete |-> TRUE])
             /\ req' = [req EXCEPT ![r] = [@ EXCEPT !.pc = "published",
                                                   !.download_url = filename,
                                                   !.trace = Append(@, "publish")]]
          \/ /\ req' = [req EXCEPT ![r] = Failed(r, "publish", Exception)]
             /\ UNCHANGED <<temp_dir, published>>
          \/ \E written \in PartialWrites(lines) :
                /\ temp_dir' = WriteFile(temp_dir, filename, written, now)
                /\ published' = Append(published,
                        [req |-> r, filename |-> filename, table |-> req[r].filtered,
                         complete |-> FALSE])
                /\ req' = [req EXCEPT ![r] = Failed(r, "publish", Exception)]
    /\ UNCHANGED <<served, upload_dir, uploaded_data, now, uploads, downloads>>

\* get_preview_data and the FilterResponse.
Respond(r) ==
    /\ req[r].pc = "published"
    /\ req' = [req EXCEPT ![r] = [@ EXCEPT !.pc = "responded", !.status = 200,
                                           !.trace = Append(@, "respond")]]
    /\ UNCHANGED <<served, upload_dir, uploaded_data, temp_dir, now, uploads,
                   published, downloads>>

(***************************************************************************)
(* GET /download/{filename}, the same code in routes.py and main.py.       *)
(***************************************************************************)
NeverPublished == <<"filtered_results_", MaxClock + 1, ".csv">>

DownloadNames == {ResultFilename(t) : t \in 0..MaxClock} \cup {NeverPublished}

\* Variant of download_response without the file_path.exists() check.
download_response_unchecked(filename) ==
    [filename |-> filename, status |-> 200,
     content |-> IF filename \in DOMAIN temp_dir THEN temp_dir[filename].content
                 ELSE << >>]

download_response(filename) ==
    IF filename \notin DOMAIN temp_dir
    THEN [filename |-> filename,
          status |-> ErrorStatus(HTTPException(404, "File not found")),
          content |-> << >>]
    ELSE [filename |-> filename, status |-> 200,
          content |-> temp_dir[filename].content]

download_results(filename) ==
    /\ Len(downloads) < MaxDownloads
    /\ downloads' = Append(downloads, download_response(filename))
    /\ UNCHANGED <<served, upload_dir, uploaded_data, temp_dir, now, req, uploads,
                   published>>

(***************************************************************************)
(* CSVService.cleanup_temp_files and the clock.                            *)
(***************************************************************************)
MaxAgeHours == {0, 24}

cleanup_temp_files(max_age_hours) ==
    /\ temp_dir' = [n \in DOMAIN temp_dir \ Expired(temp_dir, now, max_age_hours) |->
                        temp_dir[n]]
    /\ UNCHANGED <<served, upload_dir, uploaded_data, now, req, uploads, published,
                   downloads>>

Tick ==
    /\ now < MaxClock
    /\ now' = now + 1
    /\ UNCHANGED <<served, upload_dir, uploaded_data, temp_dir, req, uploads,
                   published, downloads>>

Next ==
    \/ \E file \in UploadFiles : routes_upload_csv(file)
    \/ \E file \in UploadFiles : main_upload_csv(file)
    \/ \E r \in Requests, file_id \in FileIds : ReceiveFilter(r, file_id)
    \/ \E r \in Requests : LoadTable(r)
    \/ \E r \in Requests : GenerateCode(r)
    \/ \E r \in Requests : ValidateCode(r)
    \/ \E r \in Requests : ExecuteCode(r)
    \/ \E r \in Requests : SaveResults(r)
    \/ \E r \in Requests : Respond(r)
    \/ \E filename \in DownloadNames : download_results(filename)
    \/ \E max_age_hours \in MaxAgeHours : cleanup_temp_files(max_age_hours)
    \/ Tick

Spec == Init /\ [][Next]_vars

(***************************************************************************)
(* Properties.                                                             *)
(***************************************************************************)
Last(s) == s[Len(s)]

Stages(r) == Range(req[r].trace)

PublishedBy(r) == {i \in DOMAIN published : published[i].req = r}

\* The publish operations that wrote their whole table.
Complete == {i \in DOMAIN published : published[i].complete}

\* routes.py: no stored table exists for file_id.
UnknownFileId(file_id) ==
    file_id = NoFileId \/ upload_path(file_id) \notin DOMAIN upload_dir

\* C1: under routes.py, a filter request whose file_id is missing or names
\* no stored table ends with a 400 response, and generate_filter_code is not
\* called during that request.
C1_UnknownFileIdRefused ==
    served = "routes" =>
        \A r \in Requests :
            (req[r].pc \notin {"idle", "received"} /\ UnknownFileId(req[r].file_id))
                => /\ req[r].pc = "failed"
                   /\ req[r].status = 400
                   /\ "generate" \notin Stages(r)
                   /\ req[r].code = << >>

C1_Witness ==
    /\ served = "routes"
    /\ upload_dir # << >>
    /\ \E r \in Requests :
        /\ req[r].pc = "failed"
        /\ req[r].file_id # NoFileId
        /\ UnknownFileId(req[r].file_id)

\* C2: when the validator rejects the generated code the request ends with an
\* error response, the code is never executed and nothing is published; an
\* execution step is always preceded by a validator call of the same request
\* that returned true.
C2_RejectedCodeNeverRuns ==
    \A r \in Requests :
        /\ (req[r].code # << >> /\ ~validate_filter_code(req[r].code))
              => /\ req[r].pc \in {"generated", "failed"}
                 /\ req[r].pc = "failed" => req[r].status = 500
                 /\ "execute" \notin Stages(r)
                 /\ PublishedBy(r) = {}
        /\ "execute" \in Stages(r)
              => /\ req[r].valid
                 /\ \E i, j \in DOMAIN req[r].trace :
                        /\ i < j
                        /\ req[r].trace[i] = "validate"
                        /\ req[r].trace[j] = "execute"
                 /\ compiles(req[r].code)
                 /\ startswith(req[r].code, RequiredPrefix)

C2_Witness ==
    \E r \in Requests :
        /\ req[r].pc = "failed"
        /\ req[r].code = CodeSyntaxError
        /\ req[r].status = 500
        /\ Last(req[r].trace) = "validate"

\* The successful upload responses, in order.
Successful == SelectSeq(uploads, LAMBDA u : u.status = 200)

\* C3 (as claimed): under main.py a filter request is evaluated against the
\* table stored by the upload whose handle equals the request's file_id, and
\* a request whose file_id matches no stored upload is refused with 400.
C3_FilterUsesRequestedUpload ==
    [][served = "main" =>
        \A r \in Requests :
            (req[r].pc = "received" /\ req'[r].pc # "received") =>
                IF \E k \in DOMAIN uploaded_data : uploaded_data[k].key = req[r].file_id
                THEN /\ req'[r].pc = "loaded"
                     /\ uploaded_data[req'[r].src].key = req[r].file_id
                     /\ req'[r].df = uploaded_data[req[r].file_id].df
                ELSE /\ req'[r].pc = "failed"
                     /\ req'[r].status = 400]_vars

\* C4: under routes.py, uploading a CSV that parses to a header row and no
\* data rows ends with a 400 error, returns no handle and leaves the upload
\* store as it was.
HeaderOnlyFiles ==
    {f \in UploadFiles :
        /\ f.csv_name
        /\ validate_csv(f).is_valid
        /\ Len(validate_csv(f).df.cols) > 0
        /\ Len(validate_csv(f).df.rows) = 0}

StoredTable(i) ==
    IF served = "routes"
    THEN pickle_load(upload_dir[upload_path(Successful[i].file_id)].content)
    ELSE uploaded_data[i].df

\* C5: executing generated code never changes a stored table: whatever filter
\* requests ran, the table held for an upload is record for record the table
\* stored when the upload was made.
C5_StoredTableUnchanged ==
    \A i \in DOMAIN Successful :
        /\ StoredTable(i).cols = Successful[i].columns
        /\ Len(StoredTable(i).rows) = Successful[i].total_rows
        /\ get_preview_data(StoredTable(i)) = Successful[i].preview_data

C5_Witness ==
    /\ served = "main"
    /\ \E r \in Requests :
        /\ req[r].code = CodePopPosition
        /\ req[r].pc = "responded"
        /\ req[r].filtered # req[r].df

\* C6 (as claimed): any two publish operations get distinct filenames, so no
\* published artifact is overwritten by a later publish.
C6_PublishNamesDistinct ==
    \A i, j \in Complete :
        i # j => published[i].filename # published[j].filename

\* C7 (as claimed): a download of the handle a publish returned yields a CSV
\* whose content is the table that publish wrote, whatever uploads and filter
\* requests came between.
C7_DownloadRoundTrip ==
    [][(Len(downloads') = Len(downloads) + 1 /\ Last(downloads').status = 200) =>
        \A i \in DOMAIN published :
            /\ req[published[i].req].pc = "responded"
            /\ req[published[i].req].download_url = Last(downloads').filename
            => parse_csv(Last(downloads').content) = published[i].table]_vars

Terminal(r) == req[r].pc \in {"responded", "failed"}

AllStages == <<"load", "generate", "validate", "execute", "publish", "respond">>

\* C9: under routes.py every filter request ends with exactly one response:
\* 400 exactly when file_id is missing or unknown, 500 when generation
\* raises, validation fails, execution raises or the save raises, success
\* only when no stage failed; an error raised by the generated code ends the
\* request with a 500 response.
C9_StatusOfFinished ==
    \A r \in Requests :
        /\ (req[r].status # 0) <=> Terminal(r)
        /\ Terminal(r) =>
            /\ req[r].status \in {200, 400, 500}
            /\ (req[r].status = 400) <=>
                    (req[r].pc = "failed" /\ req[r].trace = <<"load">>)
            /\ (req[r].pc = "failed"
                    /\ Last(req[r].trace) \in {"generate", "validate", "execute", "publish"})
                  => req[r].status = 500
            /\ (req[r].status = 200) <=>
                    (req[r].pc = "responded" /\ req[r].trace = AllStages)

C9_StepOfRequest ==
    \A r \in Requests :
        /\ (req[r].pc = "received" /\ req'[r].pc # "received")
              => ((req'[r].pc = "failed") <=> UnknownFileId(req[r].file_id))
        /\ (req[r].pc = "validated" /\ req'[r].pc # "validated"
                /\ exec(req[r].code, req[r].df).raised)
              => /\ req'[r].pc = "failed"
                 /\ req'[r].status = 500
        /\ req[r].status # 0 => req'[r] = req[r]

C10_DownloadNeedsArtifact ==
    [][Len(downloads') = Len(downloads) + 1 =>
        LET d == Last(downloads')
        IN /\ d.status \in {200, 404}
           /\ d.filename \notin DOMAIN temp_dir => (d.status = 404 /\ d.content = << >>)
           /\ d.filename \notin {published[i].filename : i \in DOMAIN published}
                => d.status = 404
           /\ d.status = 200 =>
                /\ d.filename \in DOMAIN temp_dir
                /\ d.content = temp_dir[d.filename].content]_vars

C10_Witness ==
    \E i \in DOMAIN downloads :
        /\ downloads[i].status = 404
        /\ \E j \in DOMAIN published : published[j].filename = downloads[i].filename

IsPrefix(s, t) == Len(s) <= Len(t) /\ SubSeq(t, 1, Len(s)) = s

\* The stages a request at pc has behind it.
StagesBefore(pc) ==
    CASE pc = "idle" -> 0
      [] pc = "received" -> 0
      [] pc = "loaded" -> 1
      [] pc = "generated" -> 2
      [] pc = "validated" -> 3
      [] pc = "executed" -> 4
      [] pc = "published" -> 5
      [] pc = "responded" -> 6

\* C11: a filter request runs its stages in the order load, generate,
\* validate, execute, publish, respond: a stage starts only after the one
\* before it succeeded, runs at most once, and a failure at a stage ends the
\* request with an error response without any later stage running.
C11_StagesInOrder ==
    \A r \in Requests :
        /\ IsPrefix(req[r].trace, AllStages)
        /\ req[r].pc # "failed" => Len(req[r].trace) = StagesBefore(req[r].pc)
        /\ req[r].pc = "failed" =>
            /\ req[r].trace # << >>
            /\ Last(req[r].trace) # "respond"
            /\ req[r].status \in {400, 500}

C11_StepInOrder ==
    \A r \in Requests :
        /\ \/ req'[r].trace = req[r].trace
           \/ /\ Len(req[r].trace) < Len(AllStages)
              /\ req'[r].trace = Append(req[r].trace, AllStages[Len(req[r].trace) + 1])
        /\ Terminal(r) => req'[r] = req[r]

C11_StageOrder ==
    /\ []C11_StagesInOrder
    /\ [][C11_StepInOrder]_vars

C11_Witness ==
    /\ \E r \in Requests : req[r].pc = "responded" /\ req[r].trace = AllStages
    /\ \E r \in Requests :
        /\ req[r].pc = "failed"
        /\ req[r].trace = <<"load", "generate", "validate">>

\* C12 (as claimed): a filter request that ends with an error response
\* returns no partial result and leaves storage as it found it: the step at
\* which the request fails changes neither the artifact directory nor the
\* stored uploads, and the request wrote nothing before it.
C12_FailedRequestLeavesStorage ==
    [][\A r \in Requests :
        (req[r].pc # "failed" /\ req'[r].pc = "failed") =>
            /\ req'[r].download_url = << >>
            /\ PublishedBy(r) = {}
            /\ temp_dir' = temp_dir
            /\ upload_dir' = upload_dir
            /\ uploaded_data' = uploaded_data]_vars

\* The table read under the first of utf-8, latin-1, cp1252 that parses.
FirstParse(f) ==
    IF f.read_csv[1].ok THEN f.read_csv[1].df
    ELSE IF f.read_csv[2].ok THEN f.read_csv[2].df
    ELSE f.read_csv[3].df

NoParse(f) == \A i \in 1..3 : ~f.read_csv[i].ok

\* C13: validate_csv tries utf-8, latin-1, cp1252 in that order and returns
\* the table parsed under the first encoding that succeeds; it returns the
\* invalid-format result exactly when all three fail, and never raises: an
\* upload of a .csv file answers 400 "Unable to read" exactly when no
\* encoding parses, never 500, and what it stores and reports when it
\* succeeds is the first successful parse.
C13_FirstEncodingWins ==
    [][\A f \in UploadFiles :
        (f.csv_name /\ (routes_upload_csv(f) \/ main_upload_csv(f))) =>
            LET resp == Last(uploads')
            IN /\ Encodings = <<"utf-8", "latin-1", "cp1252">>
               /\ resp.status \in {200, 400}
               /\ (resp.detail = "Unable to read CSV file.") <=> NoParse(f)
               /\ NoParse(f) =>
                    /\ resp.status = 400
                    /\ UNCHANGED <<upload_dir, uploaded_data>>
               /\ resp.status = 200 =>
                    /\ resp.columns = FirstParse(f).cols
                    /\ resp.preview_data = get_preview_data(FirstParse(f))
                    /\ served = "main" => Last(uploaded_data').df = FirstParse(f)
                    /\ served = "routes" =>
                         pickle_load(upload_dir'[upload_path(resp.file_id)].content)
                            = FirstParse(f)
               /\ (served = "main" /\ ~NoParse(f)) => resp.status = 200]_vars

C13_Witness ==
    /\ \E i \in DOMAIN uploads :
        /\ uploads[i].status = 200
        /\ uploads[i].preview_data = get_preview_data(TableB)
    /\ \E i \in DOMAIN uploads : uploads[i].detail = "Unable to read CSV file."

\* C14: a cleanup removes the upload handles older than the configured age:
\* after cleanup_temp_files(max_age_hours) has run, no pickled upload older
\* than max_age_hours is left for /filter to load.
C14_CleanupExpiresUploads ==
    [][\A max_age_hours \in MaxAgeHours :
        (served = "routes" /\ cleanup_temp_files(max_age_hours)) =>
            Expired(upload_dir', now', max_age_hours) = {}]_vars

====
